---- MODULE Spec2Model ----
(***************************************************************************)
(* A model of cache.py: the set-associative cache simulator                *)
(* (class CacheSimulator).  A Python dict is a sequence of <<key, value>>  *)
(* entries in insertion order (the order min()/max() iterate in), a Python *)
(* list a sequence indexed from 1, a raised exception a result whose ret   *)
(* field names the exception.                                              *)
(***************************************************************************)
EXTENDS Integers, Sequences, FiniteSets, TLC

\* ------------------------------------------------------------- bounds
MaxAddressSpace == 2      \* address_space ranges over 1..MaxAddressSpace
MaxBlockSize == 2         \* block_size ranges over 1..MaxBlockSize
MaxNumBlocks == 2         \* num_blocks ranges over 1..MaxNumBlocks
MaxAssociation == 2       \* association ranges over 0..MaxAssociation
MaxTag == 2               \* tags passed to access_cache: 0..MaxTag
MaxAccesses == 4          \* accesses completed in one run
MaxTrace == 2             \* trace lines read by simulate
MaxLineLen == 3           \* characters in one trace line

\* ------------------------------------------------------------- Python dict
\* `{}`
EmptyDict == << >>

\* `k in d`
DictHas(d, k) == \E i \in 1..Len(d) : d[i][1] = k

\* the keys of d
DictKeys(d) == {d[i][1] : i \in 1..Len(d)}

\* `d[k]` / `d.get(k)` for a key that is present
DictGet(d, k) == d[CHOOSE i \in 1..Len(d) : d[i][1] = k][2]

\* `d[k] = v`: a present key keeps its place, a new key goes last
DictSet(d, k, v) ==
    IF DictHas(d, k)
    THEN [i \in 1..Len(d) |-> IF d[i][1] = k THEN <<k, v>> ELSE d[i]]
    ELSE Append(d, <<k, v>>)

\* `del d[k]` for a key that is present
DictDel(d, k) == SelectSeq(d, LAMBDA e : e[1] # k)

\* `min(d, key=d.get)`: the first key, in iteration order, of least value
PyMinKey(d) ==
    d[CHOOSE i \in 1..Len(d) :
        /\ \A j \in 1..Len(d) : d[i][2] <= d[j][2]
        /\ \A j \in 1..(i - 1) : d[j][2] # d[i][2]][1]

\* `max(d, key=d.get)`: the first key, in iteration order, of greatest value
PyMaxKey(d) ==
    d[CHOOSE i \in 1..Len(d) :
        /\ \A j \in 1..Len(d) : d[i][2] >= d[j][2]
        /\ \A j \in 1..(i - 1) : d[j][2] # d[i][2]][1]

\* ------------------------------------------------------------- Python list
\* whether `lst[index]` is in range (a negative index counts from the end)
InRange(lst, index) == -Len(lst) <= index /\ index < Len(lst)

\* the position of `lst[index]` in the sequence
Pos(lst, index) == IF index < 0 THEN Len(lst) + index + 1 ELSE index + 1

\* ------------------------------------------------------------- the simulator
Policies == {"LRU", "MRU", "LOOKAHEAD", "FIFO"}

\* the value of a simulator variable before construction
NoSimulator ==
    [address_space |-> 0, block_size |-> 0, num_blocks |-> 0, association |-> 0,
     replacement_policy |-> "None", cache |-> << >>, lru_tracker |-> << >>,
     access_counter |-> 0]

\* __init__: ret is "ok", or the exception of `num_blocks // association`
CacheSimulator(address_space, block_size, num_blocks, association, replacement_policy) ==
    IF association = 0
    THEN [self |-> NoSimulator, ret |-> "ZeroDivisionError"]
    ELSE [self |->
            [address_space |-> address_space, block_size |-> block_size,
             num_blocks |-> num_blocks, association |-> association,
             replacement_policy |-> replacement_policy,
             cache |-> [i \in 1..(num_blocks \div association) |-> EmptyDict],
             lru_tracker |-> [i \in 1..(num_blocks \div association) |-> EmptyDict],
             access_counter |-> 0],
          ret |-> "ok"]

\* update_tracker with the counter advanced only for a tag new to the tracker
update_tracker_miss_only(self, index, tag) ==
    LET p == Pos(self.lru_tracker, index)
        counter == IF DictHas(self.lru_tracker[p], tag)
                   THEN self.access_counter ELSE self.access_counter + 1
    IN  [self EXCEPT !.access_counter = counter,
                     !.lru_tracker[p] = DictSet(@, tag, counter)]

\* update_tracker with the tag stamped before the counter is advanced
update_tracker_stale_stamp(self, index, tag) ==
    LET p == Pos(self.lru_tracker, index)
    IN  [self EXCEPT !.access_counter = self.access_counter + 1,
                     !.lru_tracker[p] = DictSet(@, tag, self.access_counter)]

\* update_tracker with the stamp of a tag already tracked left as it is
update_tracker_no_refresh(self, index, tag) ==
    LET counter == self.access_counter + 1
        p == Pos(self.lru_tracker, index)
    IN  [self EXCEPT !.access_counter = counter,
                     !.lru_tracker[p] = IF DictHas(@, tag) THEN @
                                        ELSE DictSet(@, tag, counter)]

\* update_tracker: count the access, stamp the tag with the new count
update_tracker(self, index, tag) ==
    LET counter == self.access_counter + 1
        p == Pos(self.lru_tracker, index)
    IN  [self EXCEPT !.access_counter = counter,
                     !.lru_tracker[p] = DictSet(@, tag, counter)]

\* least_used_tag with LRU keyed on self.cache (the insertion stamps)
least_used_tag_by_insertion(self, index) ==
    LET tracker == self.lru_tracker[Pos(self.lru_tracker, index)]
        set_cache == self.cache[Pos(self.cache, index)]
    IN  IF self.replacement_policy \notin {"LRU", "MRU", "LOOKAHEAD"}
        THEN [ret |-> "ValueError", tag |-> -1]
        ELSE IF Len(tracker) = 0
        THEN [ret |-> "ValueError", tag |-> -1]
        ELSE IF self.replacement_policy = "MRU"
        THEN [ret |-> "ok", tag |-> PyMaxKey(tracker)]
        ELSE IF self.replacement_policy = "LRU"
        THEN [ret |-> "ok", tag |-> PyMinKey(set_cache)]
        ELSE [ret |-> "ok", tag |-> PyMinKey(tracker)]

\* least_used_tag with min() in the MRU branch
least_used_tag_mru_min(self, index) ==
    LET tracker == self.lru_tracker[Pos(self.lru_tracker, index)]
    IN  IF self.replacement_policy \notin {"LRU", "MRU", "LOOKAHEAD"}
        THEN [ret |-> "ValueError", tag |-> -1]
        ELSE IF Len(tracker) = 0
        THEN [ret |-> "ValueError", tag |-> -1]
        ELSE [ret |-> "ok", tag |-> PyMinKey(tracker)]

\* least_used_tag with max() in the LOOKAHEAD branch
least_used_tag_lookahead_max(self, index) ==
    LET tracker == self.lru_tracker[Pos(self.lru_tracker, index)]
    IN  IF self.replacement_policy \notin {"LRU", "MRU", "LOOKAHEAD"}
        THEN [ret |-> "ValueError", tag |-> -1]
        ELSE IF Len(tracker) = 0
        THEN [ret |-> "ValueError", tag |-> -1]
        ELSE IF self.replacement_policy \in {"MRU", "LOOKAHEAD"}
        THEN [ret |-> "ok", tag |-> PyMaxKey(tracker)]
        ELSE [ret |-> "ok", tag |-> PyMinKey(tracker)]

\* least_used_tag with no else branch: an unrecognized name evicts as LRU
least_used_tag_no_raise(self, index) ==
    LET tracker == self.lru_tracker[Pos(self.lru_tracker, index)]
    IN  IF Len(tracker) = 0
        THEN [ret |-> "ValueError", tag |-> -1]
        ELSE IF self.replacement_policy = "MRU"
        THEN [ret |-> "ok", tag |-> PyMaxKey(tracker)]
        ELSE [ret |-> "ok", tag |-> PyMinKey(tracker)]

\* replace_entry, lines 67-77: the victim, or the exception raised
least_used_tag(self, index) ==
    LET tracker == self.lru_tracker[Pos(self.lru_tracker, index)]
    IN  IF self.replacement_policy \notin {"LRU", "MRU", "LOOKAHEAD"}
        THEN [ret |-> "ValueError", tag |-> -1]
        ELSE IF Len(tracker) = 0
        THEN [ret |-> "ValueError", tag |-> -1]
        ELSE IF self.replacement_policy = "MRU"
        THEN [ret |-> "ok", tag |-> PyMaxKey(tracker)]
        ELSE [ret |-> "ok", tag |-> PyMinKey(tracker)]

\* replace_entry without line 84: the victim goes, the new tag is not put in
replace_entry_no_insert(self, index, tag) ==
    LET victim == least_used_tag(self, index)
        p == Pos(self.cache, index)
    IN  IF victim.ret # "ok"
        THEN [self |-> self, ret |-> victim.ret]
        ELSE IF ~DictHas(self.cache[p], victim.tag)
        THEN [self |-> self, ret |-> "KeyError"]
        ELSE [self |->
                [self EXCEPT
                    !.cache[p] = DictDel(@, victim.tag),
                    !.lru_tracker[p] = DictDel(@, victim.tag)],
              ret |-> "ok"]

\* replace_entry without line 81: the victim stays in lru_tracker
replace_entry_no_tracker_del(self, index, tag) ==
    LET victim == least_used_tag(self, index)
        p == Pos(self.cache, index)
    IN  IF victim.ret # "ok"
        THEN [self |-> self, ret |-> victim.ret]
        ELSE IF ~DictHas(self.cache[p], victim.tag)
        THEN [self |-> self, ret |-> "KeyError"]
        ELSE [self |->
                [self EXCEPT
                    !.cache[p] = DictSet(DictDel(@, victim.tag), tag, self.access_counter)],
              ret |-> "ok"]

\* replace_entry: evict the victim from both dicts, put the new tag in the cache
replace_entry(self, index, tag) ==
    LET victim == least_used_tag(self, index)
        p == Pos(self.cache, index)
    IN  IF victim.ret # "ok"
        THEN [self |-> self, ret |-> victim.ret]
        ELSE IF ~DictHas(self.cache[p], victim.tag)
        THEN [self |-> self, ret |-> "KeyError"]
        ELSE [self |->
                [self EXCEPT
                    !.cache[p] = DictSet(DictDel(@, victim.tag), tag, self.access_counter),
                    !.lru_tracker[p] = DictDel(@, victim.tag)],
              ret |-> "ok"]

\* the lookup made in the first set whatever the index
tag_in_first_set(self, tag, index) == DictHas(self.cache[1], tag)

\* line 45: `tag in set_cache`
tag_in_set_cache(self, tag, index) == DictHas(self.cache[Pos(self.cache, index)], tag)

\* the test for space that finds the set full one line early
has_space_early_full(self, index) ==
    Len(self.cache[Pos(self.cache, index)]) < self.association - 1

\* the test for space with <= for <
has_space_off_by_one(self, index) ==
    Len(self.cache[Pos(self.cache, index)]) <= self.association

\* line 51: `len(set_cache) < self.association`
has_space(self, index) == Len(self.cache[Pos(self.cache, index)]) < self.association

\* access_cache: ret is "H", "M" or the exception raised
access_cache(self, tag, index) ==
    IF ~InRange(self.cache, index)
    THEN [self |-> self, ret |-> "IndexError"]
    ELSE IF tag_in_set_cache(self, tag, index)
    THEN [self |-> update_tracker(self, index, tag), ret |-> "H"]
    ELSE IF has_space(self, index)
    THEN [self |->
            update_tracker(
                [self EXCEPT !.cache[Pos(self.cache, index)] =
                                DictSet(@, tag, self.access_counter)],
                index, tag),
          ret |-> "M"]
    ELSE LET replaced == replace_entry(self, index, tag)
         IN  IF replaced.ret # "ok"
             THEN replaced
             ELSE [self |-> update_tracker(replaced.self, index, tag), ret |-> "M"]

\* ------------------------------------------------------------- parse_address
\* the characters trace lines are made of: whitespace, the marker, the hex
\* digits 0-3 and F, and a character that is no hex digit
Chars == {" ", "x", "g", "0", "1", "2", "3", "F"}

HexDigits ==
    {"0", "1", "2", "3", "4", "5", "6", "7", "8", "9",
     "A", "B", "C", "D", "E", "F", "a", "b", "c", "d", "e", "f"}

HexDigitValue(c) ==
    CASE c = "0" -> 0 [] c = "1" -> 1 [] c = "2" -> 2 [] c = "3" -> 3
      [] c = "4" -> 4 [] c = "5" -> 5 [] c = "6" -> 6 [] c = "7" -> 7
      [] c = "8" -> 8 [] c = "9" -> 9
      [] c \in {"A", "a"} -> 10 [] c \in {"B", "b"} -> 11
      [] c \in {"C", "c"} -> 12 [] c \in {"D", "d"} -> 13
      [] c \in {"E", "e"} -> 14 [] c \in {"F", "f"} -> 15

\* `s.strip()`: s without its leading and trailing whitespace
RECURSIVE LStrip(_)
LStrip(s) == IF Len(s) > 0 /\ s[1] = " " THEN LStrip(Tail(s)) ELSE s

RECURSIVE RStrip(_)
RStrip(s) ==
    IF Len(s) > 0 /\ s[Len(s)] = " " THEN RStrip(SubSeq(s, 1, Len(s) - 1)) ELSE s

Strip(s) == RStrip(LStrip(s))

\* the digits int(s, 16) reads: s without surrounding whitespace and without
\* a 0x prefix (over Chars there is no sign and no underscore to skip)
IntDigits(s) ==
    LET t == Strip(s)
    IN  IF Len(t) >= 2 /\ t[1] = "0" /\ t[2] \in {"x", "X"}
        THEN SubSeq(t, 3, Len(t))
        ELSE t

\* whether int(s, 16) returns; it raises ValueError otherwise
IntValid(s) ==
    LET t == IntDigits(s)
    IN  Len(t) > 0 /\ \A i \in 1..Len(t) : t[i] \in HexDigits

RECURSIVE DigitsValue(_)
DigitsValue(t) ==
    IF Len(t) = 0 THEN 0
    ELSE 16 * DigitsValue(SubSeq(t, 1, Len(t) - 1)) + HexDigitValue(t[Len(t)])

\* int(s, 16) where it returns
IntValue(s) == DigitsValue(IntDigits(s))

\* int(math.log2(n)) for n >= 1
RECURSIVE Log2(_)
Log2(n) == IF n <= 1 THEN 0 ELSE 1 + Log2(n \div 2)

\* lines 24-25: drop one leading "x"
StripMarker(address) ==
    IF Len(address) > 0 /\ address[1] = "x" THEN Tail(address) ELSE address

\* split_address with the index shifted by index_bits for block_offset_bits
split_address_index_shift(self, address) ==
    LET block_offset_bits == Log2(self.block_size)
        index_bits == Log2(Len(self.cache))
        tag_bits == self.address_space - index_bits - block_offset_bits
    IN  [ret |-> "ok",
         tag |-> (address \div (2 ^ (block_offset_bits + index_bits))) % (2 ^ tag_bits),
         index |-> (address \div (2 ^ index_bits)) % (2 ^ index_bits),
         block_offset |-> address % (2 ^ block_offset_bits)]

\* split_address with the index taken from the low bits, the offset not
\* shifted out
split_address_index_unshifted(self, address) ==
    LET block_offset_bits == Log2(self.block_size)
        index_bits == Log2(Len(self.cache))
        tag_bits == self.address_space - index_bits - block_offset_bits
    IN  [ret |-> "ok",
         tag |-> (address \div (2 ^ (block_offset_bits + index_bits))) % (2 ^ tag_bits),
         index |-> address % (2 ^ index_bits),
         block_offset |-> address % (2 ^ block_offset_bits)]

\* split_address with the tag left unmasked
split_address_tag_unmasked(self, address) ==
    LET block_offset_bits == Log2(self.block_size)
        index_bits == Log2(Len(self.cache))
    IN  [ret |-> "ok",
         tag |-> address \div (2 ^ (block_offset_bits + index_bits)),
         index |-> (address \div (2 ^ block_offset_bits)) % (2 ^ index_bits),
         block_offset |-> address % (2 ^ block_offset_bits)]

\* lines 29-36: the fields of an integer address
split_address(self, address) ==
    LET block_offset_bits == Log2(self.block_size)
        index_bits == Log2(Len(self.cache))
        tag_bits == self.address_space - index_bits - block_offset_bits
    IN  [ret |-> "ok",
         tag |-> (address \div (2 ^ (block_offset_bits + index_bits))) % (2 ^ tag_bits),
         index |-> (address \div (2 ^ block_offset_bits)) % (2 ^ index_bits),
         block_offset |-> address % (2 ^ block_offset_bits)]

ParseError == [ret |-> "ValueError", tag |-> -1, index |-> -1, block_offset |-> -1]

\* line 26, int(address, 16): whether it returns, and the integer it returns
int16(s) == [valid |-> IntValid(s), value |-> IF IntValid(s) THEN IntValue(s) ELSE -1]

\* lines 26-38 for the outcome n of int(): ret is "ok" with the three fields,
\* or the exception raised by int() (line 26), math.log2(0) (lines 29-30) or
\* 1 << tag_bits (line 36)
parse_fields(self, n) ==
    IF ~n.valid
    THEN ParseError
    ELSE IF self.block_size < 1 \/ Len(self.cache) < 1
    THEN ParseError
    ELSE IF self.address_space - Log2(Len(self.cache)) - Log2(self.block_size) < 0
    THEN ParseError
    ELSE split_address(self, n.value)

\* parse_address: ret is "ok" with the three fields, or the exception raised
parse_address(self, address) == parse_fields(self, int16(StripMarker(address)))

\* f"x{n:X}" for n >= 0
RECURSIVE HexDigitsOf(_)
HexDigitsOf(n) ==
    LET digit == <<"0", "1", "2", "3", "4", "5", "6", "7",
                   "8", "9", "A", "B", "C", "D", "E", "F">>[(n % 16) + 1]
    IN  IF n < 16 THEN <<digit>> ELSE Append(HexDigitsOf(n \div 16), digit)

FormatHex(n) == <<"x">> \o HexDigitsOf(n)

\* ------------------------------------------------------------- the state
VARIABLES
    simulator,   \* the CacheSimulator object (self)
    twin,        \* a second CacheSimulator of the same geometry, given the same calls
    status,      \* "unconstructed", "ready", "failed" (__init__ raised),
                 \* "aborted" (simulate raised and the run ended)
    results,     \* simulate's results list
    last,        \* the last call made: its arguments and what it returned
    touched,     \* per set, the tag of the last completed access (-1: none yet)
    completed,   \* the number of accesses that returned "H" or "M"
    recent,      \* per set, the distinct tags of its completed accesses, the
                 \* latest first
    addresses    \* simulate's list of lines, where the file is given whole

vars == <<simulator, twin, status, results, last, touched, completed, recent, addresses>>

\* the inputs
AddressSpaces == 1..MaxAddressSpace
BlockSizes == 1..MaxBlockSize
NumBlocks == 1..MaxNumBlocks
Associations == 0..MaxAssociation
Tags == 0..MaxTag
\* every index of the list `cache`, and one beyond it on each side
Indexes(self) == (-(Len(self.cache) + 1))..Len(self.cache)

RECURSIVE LinesOfLen(_)
LinesOfLen(n) ==
    IF n = 0 THEN {<< >>}
    ELSE {Append(l, c) : l \in LinesOfLen(n - 1), c \in Chars}

Lines == UNION {LinesOfLen(n) : n \in 0..MaxLineLen}

\* whether a line, its whitespace and marker stripped, is hex digits and no more
IsHexText(s) == Len(s) > 0 /\ \A i \in 1..Len(s) : s[i] \in HexDigits

\* lines 93 and 24-26 on every line of Lines: what int() makes of the line
\* once stripped, and whether the stripped line is hex digits and no more
LineReadings ==
    {[n |-> int16(StripMarker(Strip(address))),
      hex |-> IsHexText(StripMarker(Strip(address)))] : address \in Lines}

\* the policy of the twin: LRU beside LOOKAHEAD, the same policy otherwise
TwinPolicy(replacement_policy) ==
    IF replacement_policy = "LOOKAHEAD" THEN "LRU" ELSE replacement_policy

NoCall ==
    [op |-> "none", line |-> << >>, value |-> -1, tag |-> -1, index |-> -1,
     block_offset |-> -1, ret |-> "None", twin_ret |-> "None", victim |-> -1,
     hex |-> TRUE]

Init ==
    /\ simulator = NoSimulator
    /\ twin = NoSimulator
    /\ status = "unconstructed"
    /\ results = << >>
    /\ last = NoCall
    /\ touched = << >>
    /\ completed = 0
    /\ recent = << >>
    /\ addresses = << >>

\* line 129: simulator = CacheSimulator(...)
Construct ==
    /\ status = "unconstructed"
    /\ \E address_space \in AddressSpaces, block_size \in BlockSizes,
          num_blocks \in NumBlocks, association \in Associations,
          replacement_policy \in Policies :
        LET made == CacheSimulator(address_space, block_size, num_blocks,
                                   association, replacement_policy)
            made2 == CacheSimulator(address_space, block_size, num_blocks,
                                    association, TwinPolicy(replacement_policy))
        IN  /\ simulator' = made.self
            /\ twin' = made2.self
            /\ status' = IF made.ret = "ok" THEN "ready" ELSE "failed"
            /\ last' = [NoCall EXCEPT !.op = "init", !.ret = made.ret,
                                      !.twin_ret = made2.ret]
            /\ touched' = [i \in 1..Len(made.self.cache) |-> -1]
            /\ recent' = [i \in 1..Len(made.self.cache) |-> << >>]
    /\ UNCHANGED <<results, completed, addresses>>

\* the per-set record of the last completed access
Touch(self, ret, tag, index) ==
    IF ret \in {"H", "M"}
    THEN [touched EXCEPT ![Pos(self.cache, index)] = tag]
    ELSE touched

\* the per-set record of the tags accessed, the latest first
Recent(self, ret, tag, index) ==
    IF ret \in {"H", "M"}
    THEN [recent EXCEPT ![Pos(self.cache, index)] =
                <<tag>> \o SelectSeq(@, LAMBDA t : t # tag)]
    ELSE recent

\* the tag a completed access removed from set index (-1: none)
Victim(self, after, ret, index) ==
    IF ret \notin {"H", "M"} THEN -1
    ELSE LET p == Pos(self.cache, index)
             gone == DictKeys(self.cache[p]) \ DictKeys(after.cache[p])
         IN  IF gone = {} THEN -1 ELSE CHOOSE t \in gone : TRUE

\* a call of access_cache(tag, index) on the simulator, and on its twin
AccessCache ==
    /\ status = "ready"
    /\ simulator.access_counter < MaxAccesses
    /\ \E tag \in Tags, index \in Indexes(simulator) :
       \E acc \in {access_cache(simulator, tag, index)},
          acc2 \in {access_cache(twin, tag, index)} :
            /\ simulator' = acc.self
            /\ twin' = acc2.self
            /\ last' = [NoCall EXCEPT !.op = "access", !.tag = tag, !.index = index,
                                      !.ret = acc.ret, !.twin_ret = acc2.ret,
                                      !.victim = Victim(simulator, acc.self, acc.ret, index)]
            /\ touched' = Touch(simulator, acc.ret, tag, index)
            /\ recent' = Recent(simulator, acc.ret, tag, index)
            /\ completed' = IF acc.ret \in {"H", "M"} THEN completed + 1 ELSE completed
    /\ UNCHANGED <<status, results, addresses>>

\* a call of parse_address(address) on the simulator, for the address drawn
ParseAddress ==
    /\ status = "ready"
    /\ last.op = "call"
    /\ \E parsed \in {parse_address(simulator, last.line)} :
        last' = [last EXCEPT
                    !.op = "parse",
                    !.value = IF IntValid(StripMarker(last.line))
                              THEN IntValue(StripMarker(last.line)) ELSE -1,
                    !.tag = parsed.tag, !.index = parsed.index,
                    !.block_offset = parsed.block_offset, !.ret = parsed.ret,
                    !.hex = IsHexText(StripMarker(last.line))]
    /\ UNCHANGED <<simulator, twin, status, results, touched, completed, recent,
                   addresses>>

\* simulate, lines 92-96: one turn of the loop on a line that parsed
SimulateAccess(parsed, hex) ==
    \E acc \in {access_cache(simulator, parsed.tag, parsed.index)},
       acc2 \in {access_cache(twin, parsed.tag, parsed.index)} :
        /\ simulator' = acc.self
        /\ twin' = acc2.self
        /\ last' = [NoCall EXCEPT !.op = "simulate", !.tag = parsed.tag,
                                  !.index = parsed.index, !.ret = acc.ret,
                                  !.twin_ret = acc2.ret,
                                  !.victim = Victim(simulator, acc.self, acc.ret,
                                                    parsed.index),
                                  !.hex = hex]
        /\ touched' = Touch(simulator, acc.ret, parsed.tag, parsed.index)
        /\ recent' = Recent(simulator, acc.ret, parsed.tag, parsed.index)
        /\ IF acc.ret \in {"H", "M"}
           THEN /\ results' = Append(results,
                        <<FormatHex(parsed.index), FormatHex(parsed.tag), acc.ret>>)
                /\ completed' = completed + 1
                /\ status' = status
           ELSE /\ status' = "aborted"
                /\ UNCHANGED <<results, completed>>

\* simulate, lines 92-96: one turn of the loop, given what parse_address
\* made of the line; an exception leaves the loop and ends the run
SimulateRead(parsed, hex) ==
    IF parsed.ret # "ok"
    THEN /\ status' = "aborted"
         /\ last' = [NoCall EXCEPT !.op = "simulate", !.ret = parsed.ret,
                                   !.twin_ret = parsed.ret, !.hex = hex]
         /\ UNCHANGED <<simulator, twin, results, touched, completed, recent>>
    ELSE SimulateAccess(parsed, hex)

\* one turn of simulate's loop, lines 92-96, on one line of the file, which
\* may be any line of Lines (parse_address(address.strip()) is parse_fields
\* of the line's reading)
SimulateLine ==
    /\ status = "ready"
    /\ simulator.access_counter < MaxAccesses
    /\ Len(results) < MaxTrace
    /\ \E line \in {[parsed |-> parse_fields(simulator, reading.n), hex |-> reading.hex] :
                        reading \in LineReadings} :
        SimulateRead(line.parsed, line.hex)
    /\ UNCHANGED addresses

Next == Construct \/ AccessCache \/ SimulateLine

Spec == Init /\ [][Next]_vars

\* parse_address as a function of the geometry and the address: a simulator
\* of any geometry, just constructed, and any line to parse
InitParse ==
    /\ \E address_space \in AddressSpaces, block_size \in BlockSizes,
          num_blocks \in NumBlocks, association \in Associations \ {0},
          replacement_policy \in Policies :
        /\ simulator = CacheSimulator(address_space, block_size, num_blocks,
                                      association, replacement_policy).self
        /\ twin = CacheSimulator(address_space, block_size, num_blocks,
                                 association, TwinPolicy(replacement_policy)).self
        /\ touched = [i \in 1..(num_blocks \div association) |-> -1]
    /\ status = "ready"
    /\ results = << >>
    /\ \E address \in Lines : last = [NoCall EXCEPT !.op = "call", !.line = address]
    /\ completed = 0
    /\ recent = [i \in 1..Len(simulator.cache) |-> << >>]
    /\ addresses = << >>

NextParse == ParseAddress

SpecParse == InitParse /\ [][NextParse]_vars

\* simulate on a file given whole: the geometry of the worked example
\* (8 address bits, blocks of 4 bytes, 4 blocks), either associativity that
\* keeps 4 or 2 sets, any policy name, and any five of the example's lines
ExampleTrace ==
    << <<"x", "0", "0">>, <<"x", "0", "4">>, <<"x", "0", "8">>, <<"x", "0", "C">>,
       <<"x", "0", "0">> >>

ExampleLines == {ExampleTrace[i] : i \in 1..Len(ExampleTrace)}

InitTrace ==
    /\ \E association \in {1, 2}, replacement_policy \in Policies :
        /\ simulator = CacheSimulator(8, 4, 4, association, replacement_policy).self
        /\ twin = CacheSimulator(8, 4, 4, association,
                                 TwinPolicy(replacement_policy)).self
        /\ touched = [i \in 1..(4 \div association) |-> -1]
        /\ recent = [i \in 1..(4 \div association) |-> << >>]
    /\ status = "ready"
    /\ results = << >>
    /\ last = NoCall
    /\ completed = 0
    /\ addresses \in [1..Len(ExampleTrace) -> ExampleLines]

\* one turn of simulate's loop, lines 92-96, on the next line of addresses
SimulateNext ==
    /\ status = "ready"
    /\ Len(results) < Len(addresses)
    /\ \E address \in {addresses[Len(results) + 1]} :
        SimulateRead(parse_address(simulator, Strip(address)),
                     IsHexText(StripMarker(Strip(address))))
    /\ UNCHANGED addresses

NextTrace == SimulateNext

SpecTrace == InitTrace /\ [][NextTrace]_vars

\* ------------------------------------------------------------- properties
ValidPolicies == {"LRU", "MRU", "LOOKAHEAD"}

\* the step is a completed access_cache(last'.tag, last'.index)
AccessStep == last'.op \in {"access", "simulate"} /\ last'.ret \in {"H", "M"}

\* the set `self.cache[index]` / `self.lru_tracker[index]` before the step
SetBefore == simulator.cache[Pos(simulator.cache, last'.index)]
TrackerBefore == simulator.lru_tracker[Pos(simulator.lru_tracker, last'.index)]
SetAfter == simulator'.cache[Pos(simulator.cache, last'.index)]

\* the step is a miss on a full set
MissOnFullSet ==
    /\ AccessStep
    /\ last'.tag \notin DictKeys(SetBefore)
    /\ Len(SetBefore) >= simulator.association

\* C1: under LRU, MRU and LOOKAHEAD an access to (tag, index) with index in
\* range returns "H" if the tag was resident in set index just before it
\* and "M" if it was not
C1_HitIffResident ==
    [][(/\ last'.op \in {"access", "simulate"}
        /\ last'.tag >= 0
        /\ InRange(simulator.cache, last'.index)
        /\ simulator.replacement_policy \in ValidPolicies)
       => /\ last'.ret \in {"H", "M"}
          /\ last'.ret = "H" <=> last'.tag \in DictKeys(SetBefore)]_vars

\* a hit on a set that has seen an eviction or holds another line
C1_Witness ==
    /\ last.op = "access"
    /\ last.ret = "H"
    /\ simulator.replacement_policy \in ValidPolicies
    /\ Len(simulator.cache[Pos(simulator.cache, last.index)]) >= 2

\* C2: no set ever holds more than `association` tags, in cache or in lru_tracker
C2_CapacityBound ==
    status \in {"ready", "aborted"} =>
        \A p \in 1..Len(simulator.cache) :
            /\ Len(simulator.cache[p]) <= simulator.association
            /\ Len(simulator.lru_tracker[p]) <= simulator.association

\* a full set just after an eviction
C2_Witness ==
    /\ last.victim >= 0
    /\ Len(simulator.cache[Pos(simulator.cache, last.index)]) = simulator.association
    /\ simulator.association >= 2

\* C3: under LRU a miss on a full set removes exactly one tag, the resident tag
\* of least recency, which is not the tag the set's last access touched when
\* the set holds more than one line
C3_LruEvictsOldest ==
    [][(MissOnFullSet /\ simulator.replacement_policy = "LRU")
       => \E v \in DictKeys(SetBefore) :
            /\ DictKeys(SetAfter) = (DictKeys(SetBefore) \ {v}) \cup {last'.tag}
            /\ v \in DictKeys(TrackerBefore)
            /\ \A u \in DictKeys(TrackerBefore) :
                DictGet(TrackerBefore, v) <= DictGet(TrackerBefore, u)
            /\ simulator.association >= 2
                => v # touched[Pos(simulator.cache, last'.index)]]_vars

\* the fourth access evicts from a 2-way set whose first line, inserted by the
\* first access and hit by the third, stays
C3_Witness ==
    /\ simulator.replacement_policy = "LRU"
    /\ simulator.association = 2
    /\ simulator.access_counter = 4
    /\ last.victim >= 0
    /\ \E u \in DictKeys(simulator.cache[Pos(simulator.cache, last.index)]) :
        /\ DictGet(simulator.cache[Pos(simulator.cache, last.index)], u) = 0
        /\ DictGet(simulator.lru_tracker[Pos(simulator.cache, last.index)], u) = 3

\* C4: under MRU a miss on a full set removes exactly one tag, the resident tag
\* of greatest recency, which is the tag the set's last access touched
C4_MruEvictsNewest ==
    [][(MissOnFullSet /\ simulator.replacement_policy = "MRU")
       => \E v \in DictKeys(SetBefore) :
            /\ DictKeys(SetAfter) = (DictKeys(SetBefore) \ {v}) \cup {last'.tag}
            /\ v \in DictKeys(TrackerBefore)
            /\ \A u \in DictKeys(TrackerBefore) :
                DictGet(TrackerBefore, v) >= DictGet(TrackerBefore, u)
            /\ v = touched[Pos(simulator.cache, last'.index)]]_vars

\* an eviction from a 2-way set under MRU that keeps the line inserted first
C4_Witness ==
    /\ simulator.replacement_policy = "MRU"
    /\ simulator.association = 2
    /\ last.victim >= 0
    /\ \E u \in DictKeys(simulator.cache[Pos(simulator.cache, last.index)]) :
        DictGet(simulator.cache[Pos(simulator.cache, last.index)], u) = 0

\* C5: the access counter equals the number of completed accesses, and no two
\* resident lines, of one set or of two, carry the same recency value
C5_CounterAndDistinctRecency ==
    /\ simulator.access_counter = completed
    /\ \A p, q \in 1..Len(simulator.lru_tracker) :
        \A i \in 1..Len(simulator.lru_tracker[p]), j \in 1..Len(simulator.lru_tracker[q]) :
            simulator.lru_tracker[p][i][2] = simulator.lru_tracker[q][j][2]
                => (p = q /\ i = j)
    /\ \A p \in 1..Len(simulator.lru_tracker) :
        \A i \in 1..Len(simulator.lru_tracker[p]) :
            simulator.lru_tracker[p][i][2] \in 1..simulator.access_counter

\* four accesses done, hits among them, lines resident in two sets
C5_Witness ==
    /\ completed = 4
    /\ last.ret = "H"
    /\ Len(simulator.cache) >= 2
    /\ \A p \in 1..Len(simulator.cache) : Len(simulator.cache[p]) >= 1

\* a | b for a, b >= 0
RECURSIVE BitOr(_, _)
BitOr(a, b) ==
    IF a = 0 THEN b
    ELSE IF b = 0 THEN a
    ELSE 2 * BitOr(a \div 2, b \div 2) + (IF a % 2 = 1 \/ b % 2 = 1 THEN 1 ELSE 0)

IsPowerOfTwo(n) == n >= 1 /\ 2 ^ Log2(n) = n

OffsetBits == Log2(simulator.block_size)
IndexBits == Log2(Len(simulator.cache))
TagBits == simulator.address_space - IndexBits - OffsetBits

\* the geometry invariants of the data model
ConsistentGeometry ==
    /\ IsPowerOfTwo(simulator.block_size)
    /\ IsPowerOfTwo(simulator.num_blocks)
    /\ simulator.association >= 1
    /\ simulator.num_blocks % simulator.association = 0
    /\ IsPowerOfTwo(Len(simulator.cache))
    /\ TagBits >= 0

\* (tag << (index_bits + offset_bits)) | (index << offset_bits) | offset
\* of the fields parse_address returned
Reassembled ==
    BitOr(BitOr(last.tag * (2 ^ (IndexBits + OffsetBits)), last.index * (2 ^ OffsetBits)),
          last.block_offset)

\* C6: under a consistent geometry every address below 2^address_space parses,
\* and its three fields reassemble to the address
C6_RoundTrip ==
    (/\ last.op = "parse"
     /\ ConsistentGeometry
     /\ last.value \in 0..(2 ^ simulator.address_space - 1))
    => /\ last.ret = "ok"
       /\ Reassembled = last.value

\* an in-range address with a non-zero tag and a non-zero index, parsed
C6_Witness ==
    /\ last.op = "parse"
    /\ ConsistentGeometry
    /\ last.value \in 0..(2 ^ simulator.address_space - 1)
    /\ last.ret = "ok"
    /\ last.tag >= 1
    /\ last.index >= 1

\* C7: wherever the three widths are defined, any address that int() accepts
\* parses without error to offset < block_size, index < set count and
\* tag < 2^tag_bits, which reassemble to the address modulo 2^address_space
C7_FieldsBoundedAndTruncated ==
    (/\ last.op = "parse"
     /\ last.value >= 0
     /\ Len(simulator.cache) >= 1
     /\ TagBits >= 0)
    => /\ last.ret = "ok"
       /\ last.block_offset \in 0..(simulator.block_size - 1)
       /\ last.index \in 0..(Len(simulator.cache) - 1)
       /\ last.tag \in 0..(2 ^ TagBits - 1)
       /\ Reassembled = last.value % (2 ^ simulator.address_space)

\* an address of more than address_space bits, parsed
C7_Witness ==
    /\ last.op = "parse"
    /\ last.ret = "ok"
    /\ last.value >= 2 ^ simulator.address_space
    /\ Reassembled # last.value
    /\ last.tag >= 1

\* C8: no access returns "H" or "M" on a simulator whose policy name is none
\* of LRU, MRU, LOOKAHEAD (its construction has failed)
C8_InvalidPolicyRejected ==
    (last.op \in {"access", "simulate"} /\ last.ret \in {"H", "M"})
        => simulator.replacement_policy \in ValidPolicies

\* C9: no access returns "H" or "M" on a simulator of inconsistent geometry
\* (its construction has failed)
C9_InconsistentGeometryRejected ==
    (last.op \in {"access", "simulate"} /\ last.ret \in {"H", "M"})
        => ConsistentGeometry

\* C10: a LOOKAHEAD simulator and the LRU simulator given the same calls
\* return the same outcome at every access and hold the same tags and
\* recency values in every set, and the same counter
C10_LookaheadIsLru ==
    simulator.replacement_policy = "LOOKAHEAD" =>
        /\ twin.replacement_policy = "LRU"
        /\ last.ret = last.twin_ret
        /\ twin.cache = simulator.cache
        /\ twin.lru_tracker = simulator.lru_tracker
        /\ twin.access_counter = simulator.access_counter

\* the fourth access under LOOKAHEAD evicts from a 2-way set whose first
\* line, hit by the third access, stays
C10_Witness ==
    /\ simulator.replacement_policy = "LOOKAHEAD"
    /\ twin.replacement_policy = "LRU"
    /\ simulator.association = 2
    /\ simulator.access_counter = 4
    /\ last.victim >= 0
    /\ \E u \in DictKeys(simulator.cache[Pos(simulator.cache, last.index)]) :
        /\ DictGet(simulator.cache[Pos(simulator.cache, last.index)], u) = 0
        /\ DictGet(simulator.lru_tracker[Pos(simulator.cache, last.index)], u) = 3

\* C12: access_cache(tag, index) with an index outside 0..(set count - 1),
\* negative ones included, returns neither "H" nor "M" and changes no set,
\* no recency value and not the counter
C12_OutOfRangeIndexFails ==
    [][(/\ last'.op = "access"
        /\ last'.index \notin 0..(Len(simulator.cache) - 1))
       => /\ last'.ret \notin {"H", "M"}
          /\ simulator'.cache = simulator.cache
          /\ simulator'.lru_tracker = simulator.lru_tracker
          /\ simulator'.access_counter = simulator.access_counter]_vars

\* C13: a line of simulate that, stripped of whitespace and of the marker,
\* is not hex digits and no more, raises ValueError and ends the run, and
\* changes no set, no recency value and not the counter
C13_MalformedLineAborts ==
    [][(last'.op = "simulate" /\ ~last'.hex)
       => /\ last'.ret = "ValueError"
          /\ status' = "aborted"
          /\ results' = results
          /\ simulator' = simulator]_vars

\* the records simulate returns for the worked example
ExampleResults ==
    << <<FormatHex(0), FormatHex(0), "M">>, <<FormatHex(1), FormatHex(0), "M">>,
       <<FormatHex(2), FormatHex(0), "M">>, <<FormatHex(3), FormatHex(0), "M">>,
       <<FormatHex(0), FormatHex(0), "H">> >>

\* C14: with 8 address bits, blocks of 4 bytes, 4 blocks, association 1 and
\* LRU, the trace x00, x04, x08, x0C, x00 never raises, and the records made
\* so far are those of indices 0, 1, 2, 3, 0, tags 0 and outcomes M, M, M, M, H
C14_WorkedExample ==
    (/\ addresses = ExampleTrace
     /\ simulator.association = 1
     /\ simulator.replacement_policy = "LRU")
    => /\ status = "ready"
       /\ Len(results) <= Len(ExampleResults)
       /\ results = SubSeq(ExampleResults, 1, Len(results))
       /\ Len(results) >= 1 =>
            /\ last.index = <<0, 1, 2, 3, 0>>[Len(results)]
            /\ last.tag = 0
            /\ last.ret = ExampleResults[Len(results)][3]

\* the example's trace read to its end
C14_Witness ==
    /\ addresses = ExampleTrace
    /\ simulator.association = 1
    /\ simulator.replacement_policy = "LRU"
    /\ Len(results) = Len(ExampleTrace)
    /\ results[5] = << <<"x", "0">>, <<"x", "0">>, "H" >>
    /\ simulator.access_counter = 5

\* C15: every completed access advances the counter by one and leaves the tag
\* it touched with that new count as its recency in lru_tracker, on a hit
\* (the resident line is refreshed), on a miss with space and on a miss
\* with eviction; the n-th completed access of a run leaves recency n
C15_PostIncrementRecency ==
    [][AccessStep
       => /\ simulator'.access_counter = simulator.access_counter + 1
          /\ simulator'.access_counter = completed'
          /\ DictHas(simulator'.lru_tracker[Pos(simulator.cache, last'.index)], last'.tag)
          /\ DictGet(simulator'.lru_tracker[Pos(simulator.cache, last'.index)], last'.tag)
                = simulator'.access_counter]_vars

\* the third access is a hit on the line the first one inserted: its recency
\* is now 3
C15_Witness ==
    /\ last.op \in {"access", "simulate"}
    /\ last.ret = "H"
    /\ completed = 3
    /\ simulator.association = 2
    /\ Len(simulator.lru_tracker[Pos(simulator.cache, last.index)]) = 2
    /\ DictGet(simulator.cache[Pos(simulator.cache, last.index)], last.tag) = 0
    /\ DictGet(simulator.lru_tracker[Pos(simulator.cache, last.index)], last.tag) = 3

\* the step is a call of access_cache, from access_cache's caller or from
\* simulate, with a set of its own: the index is one the list takes
OwnSetStep ==
    /\ last'.op \in {"access", "simulate"}
    /\ last'.tag >= 0
    /\ InRange(simulator.cache, last'.index)

\* C16: an access removes a line only as a miss on the line's own set while
\* that set is full, and then exactly one; a hit removes no line, a miss with
\* space removes none and adds the tag; whatever the access returns, every
\* other set keeps its tags and recency values
C16_OnlyEvictionRemoves ==
    [][last'.op \in {"access", "simulate"}
       => /\ \A q \in 1..Len(simulator.cache) :
                (OwnSetStep /\ q = Pos(simulator.cache, last'.index))
                \/ (/\ simulator'.cache[q] = simulator.cache[q]
                    /\ simulator'.lru_tracker[q] = simulator.lru_tracker[q])
          /\ OwnSetStep =>
                /\ DictKeys(SetBefore) \ DictKeys(SetAfter) # {}
                    => /\ MissOnFullSet
                       /\ Cardinality(DictKeys(SetBefore) \ DictKeys(SetAfter)) = 1
                /\ (MissOnFullSet /\ simulator.replacement_policy \in ValidPolicies)
                    => Cardinality(DictKeys(SetBefore) \ DictKeys(SetAfter)) = 1
                /\ (AccessStep /\ last'.ret = "H")
                    => DictKeys(SetAfter) = DictKeys(SetBefore)
                /\ (AccessStep /\ last'.ret = "M" /\ ~MissOnFullSet)
                    => DictKeys(SetAfter) = DictKeys(SetBefore) \cup {last'.tag}]_vars

\* two sets, both holding a line, one of them just after an eviction
C16_Witness ==
    /\ last.op \in {"access", "simulate"}
    /\ last.victim >= 0
    /\ Len(simulator.cache) = 2
    /\ \A q \in 1..2 : Len(simulator.cache[q]) = 1

\* C17: under LRU, MRU and LOOKAHEAD, right after a completed access to
\* (tag, index) the tag is resident in set index, it is not the line that
\* access removed, and the same access made next returns "H"
C17_RepeatHits ==
    (/\ last.op \in {"access", "simulate"}
     /\ last.ret \in {"H", "M"}
     /\ simulator.replacement_policy \in ValidPolicies)
    => /\ DictHas(simulator.cache[Pos(simulator.cache, last.index)], last.tag)
       /\ last.victim # last.tag
       /\ access_cache(simulator, last.tag, last.index).ret = "H"

\* under MRU, a miss that evicted from a 2-way set
C17_Witness ==
    /\ last.op \in {"access", "simulate"}
    /\ last.ret = "M"
    /\ last.victim >= 0
    /\ simulator.replacement_policy = "MRU"
    /\ simulator.association = 2

\* the first n entries of a sequence, as a set (all of them if it is shorter)
FirstOf(seq, n) == {seq[i] : i \in 1..(IF n < Len(seq) THEN n ELSE Len(seq))}

\* C18: under LRU an access to (tag, index) returns "H" exactly when the tag
\* is among the `association` distinct tags accessed latest in set index, and
\* after it the set holds exactly the min(association, distinct tags seen)
\* distinct tags accessed latest
C18_LruStackDistance ==
    [][(/\ OwnSetStep
        /\ simulator.replacement_policy = "LRU")
       => /\ last'.ret \in {"H", "M"}
          /\ last'.ret = "H"
                <=> last'.tag \in FirstOf(recent[Pos(simulator.cache, last'.index)],
                                         simulator.association)
          /\ DictKeys(SetAfter)
                = FirstOf(recent'[Pos(simulator.cache, last'.index)],
                          simulator.association)]_vars

\* under LRU a 2-way set has seen three distinct tags, a hit among the
\* accesses, and the fourth access misses on the tag that has fallen out
C18_Witness ==
    /\ simulator.replacement_policy = "LRU"
    /\ simulator.association = 2
    /\ completed = 4
    /\ last.ret = "M"
    /\ last.victim >= 0
    /\ Len(recent[Pos(simulator.cache, last.index)]) = 3
    /\ \E u \in DictKeys(simulator.cache[Pos(simulator.cache, last.index)]) :
        /\ DictGet(simulator.cache[Pos(simulator.cache, last.index)], u) = 0
        /\ DictGet(simulator.lru_tracker[Pos(simulator.cache, last.index)], u) = 3

\* C19: under a policy name that is none of LRU, MRU, LOOKAHEAD a miss on a
\* full set raises ValueError and leaves every set, every recency value and
\* the counter as they were; a hit and a miss on a set with space return "H"
\* and "M"
C19_InvalidPolicyRaisesUnchanged ==
    [][(/\ OwnSetStep
        /\ simulator.replacement_policy \notin ValidPolicies)
       => IF /\ last'.tag \notin DictKeys(SetBefore)
             /\ Len(SetBefore) >= simulator.association
          THEN /\ last'.ret = "ValueError"
               /\ simulator'.cache = simulator.cache
               /\ simulator'.lru_tracker = simulator.lru_tracker
               /\ simulator'.access_counter = simulator.access_counter
               /\ completed' = completed
          ELSE /\ last'.ret = (IF last'.tag \in DictKeys(SetBefore) THEN "H" ELSE "M")
               /\ simulator'.access_counter = simulator.access_counter + 1]_vars

\* under FIFO, a miss on a full 2-way set after a miss, a miss and a hit
C19_Witness ==
    /\ simulator.replacement_policy \notin ValidPolicies
    /\ last.op = "access"
    /\ last.ret = "ValueError"
    /\ simulator.association = 2
    /\ completed = 3
    /\ \E p \in 1..Len(simulator.cache) :
        /\ Len(simulator.cache[p]) = 2
        /\ \E u \in DictKeys(simulator.lru_tracker[p]) :
            DictGet(simulator.lru_tracker[p], u) = 3

\* C20: in every set the tags of cache and the tags of lru_tracker are the
\* same, and no access raises KeyError (the victim taken from lru_tracker is
\* in cache, so neither del of replace_entry fails)
C20_DictsInStep ==
    /\ Len(simulator.cache) = Len(simulator.lru_tracker)
    /\ \A p \in 1..Len(simulator.cache) :
        DictKeys(simulator.cache[p]) = DictKeys(simulator.lru_tracker[p])
    /\ last.ret # "KeyError"
    /\ last.twin_ret # "KeyError"

\* two evictions from one set
C20_Witness ==
    /\ last.op \in {"access", "simulate"}
    /\ last.victim >= 0
    /\ completed = 4
    /\ simulator.association = 1
    /\ \E p \in 1..Len(simulator.cache) :
        /\ Len(recent[p]) = 3
        /\ Len(simulator.cache[p]) = 1

====
